---- MODULE Spec2Model ----
(***************************************************************************)
(* Model of the asset-portfolio application (src/src/AssetPortfolioApp.tsx).*)
(*                                                                         *)
(* The record set `state` is the React state of AssetPortfolioApp; the     *)
(* mutators are its setState handlers; `storage` is the localStorage entry *)
(* under STORAGE_KEY; `accountBalances` and `positionsMV` are the two      *)
(* useMemo cells whose dependency lists omit values they read, so they can *)
(* hold values of an earlier render; `netWorthSeries` is a third such cell.  *)
(* Every other derived value is a pure function of its dependency list and *)
(* is an operator here.                                                    *)
(*                                                                         *)
(* Numbers.  A JavaScript number is modelled as an exact rational <<n, d>> *)
(* in lowest terms with d > 0, extended with <<1, 0>> (Infinity),          *)
(* <<-1, 0>> (-Infinity) and <<0, 0>> (NaN), with the IEEE rules for the   *)
(* extended values.  The rounding error of doubles and the sign of zero    *)
(* are not modelled.                                                       *)
(***************************************************************************)
EXTENDS Integers, Sequences, FiniteSets, TLC

VARIABLES state, refSeed, storage, accountBalances, positionsMV, netWorthSeries, alert,
          lastOp, ops

vars ==
  <<state, refSeed, storage, accountBalances, positionsMV, netWorthSeries, alert, lastOp, ops>>

(***************************************************************************)
(* Bound of the exploration: the number of UI events handled in one run.   *)
(***************************************************************************)
MaxOps == 2

-----------------------------------------------------------------------------
(* JavaScript numbers *)

AbsInt(i) == IF i < 0 THEN -i ELSE i

SignInt(i) == IF i < 0 THEN -1 ELSE IF i > 0 THEN 1 ELSE 0

RECURSIVE GCD(_, _)
GCD(a, b) == IF b = 0 THEN a ELSE GCD(b, a % b)

Norm(n, d) ==
  IF d = 0 THEN <<SignInt(n), 0>>
  ELSE IF n = 0 THEN <<0, 1>>
  ELSE LET s == IF d < 0 THEN -1 ELSE 1
           g == GCD(AbsInt(n), AbsInt(d))
       IN  <<(s * n) \div g, (s * d) \div g>>

R(i) == <<i, 1>>

Zero == R(0)

NaN == <<0, 0>>

Infinity == <<1, 0>>

IsNaN(a) == a = NaN

\* Number.isFinite
IsFinite(a) == a[2] # 0

Neg(a) == <<-a[1], a[2]>>

Abs(a) == <<AbsInt(a[1]), a[2]>>

Add(a, b) ==
  IF IsFinite(a) /\ IsFinite(b)
  THEN LET g == GCD(a[2], b[2])
       IN  Norm(a[1] * (b[2] \div g) + b[1] * (a[2] \div g), (a[2] \div g) * b[2])
  ELSE IF IsNaN(a) \/ IsNaN(b) THEN NaN
  ELSE IF ~IsFinite(a) /\ ~IsFinite(b) THEN (IF a = b THEN a ELSE NaN)
  ELSE IF IsFinite(a) THEN b ELSE a

Sub(a, b) == Add(a, Neg(b))

Mul(a, b) ==
  IF IsFinite(a) /\ IsFinite(b)
  THEN IF a[1] = 0 \/ b[1] = 0 THEN Zero
       ELSE LET g1 == GCD(AbsInt(a[1]), b[2])
                g2 == GCD(AbsInt(b[1]), a[2])
            IN  Norm((a[1] \div g1) * (b[1] \div g2), (a[2] \div g2) * (b[2] \div g1))
  ELSE <<SignInt(a[1]) * SignInt(b[1]), 0>>

\* 1 / a: 1/0 is Infinity, 1/Infinity is 0, 1/NaN is NaN
Inv(a) ==
  IF IsNaN(a) THEN NaN
  ELSE IF ~IsFinite(a) THEN Zero
  ELSE IF a[1] = 0 THEN Infinity
  ELSE <<SignInt(a[1]) * a[2], AbsInt(a[1])>>

Div(a, b) == Mul(a, Inv(b))

\* a < b; every comparison with NaN is false
Less(a, b) ==
  IF IsNaN(a) \/ IsNaN(b) THEN FALSE
  ELSE IF ~IsFinite(a) THEN a[1] < 0 /\ b # a
  ELSE IF ~IsFinite(b) THEN b[1] > 0
  ELSE LET g == GCD(a[2], b[2])
       IN  a[1] * (b[2] \div g) < b[1] * (a[2] \div g)

\* a >= b
GreaterEq(a, b) == ~IsNaN(a) /\ ~IsNaN(b) /\ ~Less(a, b)

\* Math.min of two numbers
Min(a, b) == IF IsNaN(a) \/ IsNaN(b) THEN NaN ELSE IF Less(b, a) THEN b ELSE a

\* Math.round: floor(a + 1/2)
Round(a) == IF IsFinite(a) THEN R((2 * a[1] + a[2]) \div (2 * a[2])) ELSE a

-----------------------------------------------------------------------------
(***************************************************************************)
(* Values that are not numbers.  A number is a pair with a denominator >= 0;*)
(* the pairs below, with a negative second component, stand for the other  *)
(* values a numeric property can hold.                                     *)
(***************************************************************************)

\* a property that is present and holds undefined
Undefined == <<0, -1>>

\* JSON null (JSON.stringify writes NaN and the infinities as null)
Null == <<0, -2>>

\* a property that is not on the object
Absent == <<0, -3>>

IsNumber(v) == v[2] >= 0

\* Number(v): Number(null) is 0, Number(undefined) is NaN
ToNumber(v) == IF v = Null THEN Zero ELSE IF IsNumber(v) THEN v ELSE NaN

\* v ?? d
Coalesce(v, d) == IF v \in {Undefined, Null, Absent} THEN d ELSE v

ensureNumber(n, fallback) ==
  LET x == ToNumber(n) IN IF IsFinite(x) THEN x ELSE fallback

RECURSIVE sum(_)
sum(arr) ==
  IF arr = <<>> THEN Zero
  ELSE LET n == Len(arr)
           b == arr[n]
       IN  Add(sum(SubSeq(arr, 1, n - 1)), IF IsFinite(b) THEN b ELSE Zero)

-----------------------------------------------------------------------------
(* Types *)

CURRENCIES == <<"KRW", "USD">>

ASSET_TYPES == <<"Cash", "Stock", "ETF", "Bond", "Crypto", "Real Estate", "Other">>

TX_TYPES == <<"Deposit", "Withdraw", "Buy", "Sell", "Income", "Expense">>

Range(seq) == {seq[i] : i \in 1..Len(seq)}

\* An account reference that is present and holds undefined (form default
\* `state.accounts[0]?.id` with no account); ids are positive integers.
UndefinedId == 0

\* An account reference that is not on the object.
AbsentId == -1

\* todayISO(): the calendar date of the session, <<year, month, day>>
Today == <<2026, 11, 3>>

-----------------------------------------------------------------------------
(* Seed data.  uid() draws random ids; the seed's ids are 1..9 here.  Text  *)
(* that no computation reads (notes, symbols, deadlines) is left out.       *)

seedAllocation ==
  [t \in Range(ASSET_TYPES) |->
     CASE t = "Cash" -> R(20) [] t = "Stock" -> R(45) [] t = "ETF" -> R(15)
       [] t = "Bond" -> R(10) [] t = "Crypto" -> R(5) [] t = "Real Estate" -> R(5)
       [] OTHER -> R(0)]

seedSettings ==
  [baseCurrency |-> "KRW", usdKrw |-> R(1350), riskProfile |-> "Neutral", showAdvanced |-> TRUE]

seedTargets == [allocation |-> seedAllocation, driftThreshold |-> R(5)]

seed ==
  [settings |-> seedSettings,
   accounts |-> <<
     [id |-> 1, name |-> "checking", type |-> "Cash", currency |-> "KRW", openingBalance |-> R(2000000)],
     [id |-> 2, name |-> "broker-domestic", type |-> "Stock", currency |-> "KRW", openingBalance |-> R(10000000)],
     [id |-> 3, name |-> "broker-overseas", type |-> "ETF", currency |-> "USD", openingBalance |-> R(5000)],
     [id |-> 4, name |-> "coin-exchange", type |-> "Crypto", currency |-> "KRW", openingBalance |-> R(1000000)] >>,
   transactions |-> <<
     [id |-> 5, date |-> Today, accountId |-> 1, type |-> "Deposit",
      amount |-> R(1000000), fee |-> R(0), tax |-> R(0)] >>,
   positions |-> <<
     [id |-> 6, accountId |-> 2, name |-> "Samsung", assetType |-> "Stock", qty |-> R(20),
      avgPrice |-> R(70000), currency |-> "KRW", lastPrice |-> R(81000)],
     [id |-> 7, accountId |-> 3, name |-> "VOO", assetType |-> "ETF", qty |-> R(5),
      avgPrice |-> R(400), currency |-> "USD", lastPrice |-> R(530)] >>,
   goals |-> <<
     [id |-> 8, name |-> "emergency", target |-> R(3000000), accountIds |-> <<>>],
     [id |-> 9, name |-> "tuition", target |-> R(10000000), accountIds |-> <<>>] >>,
   targets |-> seedTargets]

-----------------------------------------------------------------------------
(* Derived data *)

fx(s) == ensureNumber(s.settings.usdKrw, R(1350))

\* variant of toBase that multiplies by the rate in both directions
toBaseAlwaysMultiplies(s, amount, currency) ==
  IF s.settings.baseCurrency = currency THEN amount
  ELSE IF currency = "USD" /\ s.settings.baseCurrency = "KRW" THEN Mul(amount, fx(s))
  ELSE IF currency = "KRW" /\ s.settings.baseCurrency = "USD" THEN Mul(amount, fx(s))
  ELSE amount

toBase(s, amount, currency) ==
  IF s.settings.baseCurrency = currency THEN amount
  ELSE IF currency = "USD" /\ s.settings.baseCurrency = "KRW" THEN Mul(amount, fx(s))
  ELSE IF currency = "KRW" /\ s.settings.baseCurrency = "USD" THEN Div(amount, fx(s))
  ELSE amount

AccountIds(s) == {s.accounts[i].id : i \in 1..Len(s.accounts)}

\* `for (const a of state.accounts) flows[a.id] = ...`: the last account of an id wins
flowsOfAccounts(s) ==
  [id \in AccountIds(s) |->
     LET i == CHOOSE k \in 1..Len(s.accounts) :
                /\ s.accounts[k].id = id
                /\ \A j \in (k + 1)..Len(s.accounts) : s.accounts[j].id # id
     IN  ensureNumber(s.accounts[i].openingBalance, Zero)]

IsInflow(type) == type \in {"Deposit", "Income", "Sell"}

IsOutflow(type) == type \in {"Withdraw", "Expense", "Buy"}

\* variant of netAmount that leaves the tax out
netAmountWithoutTax(t) == Sub(ensureNumber(t.amount, Zero), ensureNumber(t.fee, Zero))

\* amount - fee - tax of a transaction
netAmount(t) ==
  Sub(Sub(ensureNumber(t.amount, Zero), ensureNumber(t.fee, Zero)), ensureNumber(t.tax, Zero))

\* variant of applyFlow in which an outflow takes a balance to 0 at most
applyFlowNoOverdraft(flows, t) ==
  LET key == t.accountId
      falsy == key \notin DOMAIN flows \/ flows[key] = Zero \/ IsNaN(flows[key])
      cur == IF falsy THEN Zero ELSE flows[key]
      less == Sub(cur, netAmount(t))
      new == IF IsInflow(t.type) THEN Add(cur, netAmount(t))
             ELSE IF IsOutflow(t.type) THEN (IF Less(less, Zero) THEN Zero ELSE less)
             ELSE cur
  IN  [k \in DOMAIN flows \cup {key} |-> IF k = key THEN new ELSE flows[k]]

\* one pass of the loop over state.transactions
applyFlow(flows, t) ==
  LET key == t.accountId
      falsy == key \notin DOMAIN flows \/ flows[key] = Zero \/ IsNaN(flows[key])
      cur == IF falsy THEN Zero ELSE flows[key]
      new == IF IsInflow(t.type) THEN Add(cur, netAmount(t))
             ELSE IF IsOutflow(t.type) THEN Sub(cur, netAmount(t))
             ELSE cur
  IN  [k \in DOMAIN flows \cup {key} |-> IF k = key THEN new ELSE flows[k]]

RECURSIVE flowsUpTo(_, _)
flowsUpTo(s, k) ==
  IF k = 0 THEN flowsOfAccounts(s)
  ELSE applyFlow(flowsUpTo(s, k - 1), s.transactions[k])

cashFlows(s) == flowsUpTo(s, Len(s.transactions))

\* the value the accountBalances memo takes when it is recomputed
computeAccountBalances(s) ==
  LET flows == cashFlows(s)
  IN  [i \in 1..Len(s.accounts) |->
         LET a == s.accounts[i]
             bal == ensureNumber(flows[a.id], Zero)
         IN  [id |-> a.id, name |-> a.name, type |-> a.type, currency |-> a.currency,
              openingBalance |-> a.openingBalance,
              balance |-> bal, balanceBase |-> toBase(s, bal, a.currency)]]

\* variant of computePositionsMV whose P/L is the price difference of one unit
computePositionsMVPerUnit(s) ==
  [i \in 1..Len(s.positions) |->
     LET p == s.positions[i]
         qty == ensureNumber(p.qty, Zero)
         last == ensureNumber(p.lastPrice, Zero)
         avg == ensureNumber(p.avgPrice, Zero)
     IN  [id |-> p.id, accountId |-> p.accountId, name |-> p.name, assetType |-> p.assetType,
          qty |-> p.qty, avgPrice |-> p.avgPrice, currency |-> p.currency,
          lastPrice |-> p.lastPrice,
          marketValue |-> Mul(qty, last),
          marketValueBase |-> toBase(s, Mul(qty, last), p.currency),
          pnl |-> Sub(last, avg),
          pnlPct |-> Mul(Sub(Div(last, avg), R(1)), R(100))]]

\* the value the positionsMV memo takes when it is recomputed
computePositionsMV(s) ==
  [i \in 1..Len(s.positions) |->
     LET p == s.positions[i]
         qty == ensureNumber(p.qty, Zero)
         last == ensureNumber(p.lastPrice, Zero)
         avg == ensureNumber(p.avgPrice, Zero)
     IN  [id |-> p.id, accountId |-> p.accountId, name |-> p.name, assetType |-> p.assetType,
          qty |-> p.qty, avgPrice |-> p.avgPrice, currency |-> p.currency,
          lastPrice |-> p.lastPrice,
          marketValue |-> Mul(qty, last),
          marketValueBase |-> toBase(s, Mul(qty, last), p.currency),
          pnl |-> Mul(Sub(last, avg), qty),
          pnlPct |-> Mul(Sub(Div(last, avg), R(1)), R(100))]]

\* variant of typeEntries that leaves the positions out
typeEntriesOfAccounts(ab, pmv) ==
  [i \in 1..Len(ab) |-> <<ab[i].type, ab[i].balanceBase>>]

\* <<type, base-currency value>> of every account, then of every position
typeEntries(ab, pmv) ==
  [i \in 1..Len(ab) |-> <<ab[i].type, ab[i].balanceBase>>]
    \o [i \in 1..Len(pmv) |-> <<pmv[i].assetType, pmv[i].marketValueBase>>]

\* ((0 + v1) + v2) + ... : the running `(totals[t] ?? 0) + v` of one key
RECURSIVE addUp(_)
addUp(arr) ==
  IF arr = <<>> THEN Zero
  ELSE Add(addUp(SubSeq(arr, 1, Len(arr) - 1)), arr[Len(arr)])

\* Record<type, number>: a function whose domain is the types that have an entry
totalsOf(entries) ==
  [t \in {entries[i][1] : i \in 1..Len(entries)} |->
     LET mine == SelectSeq(entries, LAMBDA e : e[1] = t)
     IN  addUp([i \in 1..Len(mine) |-> mine[i][2]])]

totalsByType(ab, pmv) == totalsOf(typeEntries(ab, pmv))

\* the keys of an object in insertion order
RECURSIVE keysInOrder(_)
keysInOrder(entries) ==
  IF entries = <<>> THEN <<>>
  ELSE LET n == Len(entries)
           rest == keysInOrder(SubSeq(entries, 1, n - 1))
       IN  IF entries[n][1] \in Range(rest) THEN rest ELSE Append(rest, entries[n][1])

totalAssetsBase(ab, pmv) ==
  LET totals == totalsByType(ab, pmv)
      keys == keysInOrder(typeEntries(ab, pmv))
  IN  sum([i \in 1..Len(keys) |-> totals[keys[i]]])

\* variant of allocationOf that divides whenever the total is not zero
allocationOfNonZeroTotal(totals, total) ==
  [t \in Range(ASSET_TYPES) |->
     LET v == IF t \in DOMAIN totals THEN totals[t] ELSE Zero
     IN  IF total # Zero THEN Mul(Div(v, total), R(100)) ELSE Zero]

allocationOf(totals, total) ==
  [t \in Range(ASSET_TYPES) |->
     LET v == IF t \in DOMAIN totals THEN totals[t] ELSE Zero
     IN  IF Less(Zero, total) THEN Mul(Div(v, total), R(100)) ELSE Zero]

allocationActual(ab, pmv) == allocationOf(totalsByType(ab, pmv), totalAssetsBase(ab, pmv))

\* Array.prototype.sort with the comparator (a, b) => key(b) - key(a), on
\* <<key, item>> pairs: stable, and a NaN comparison result counts as 0.
RECURSIVE insertDesc(_, _)
insertDesc(sorted, x) ==
  IF sorted = <<>> THEN <<x>>
  ELSE LET n == Len(sorted)
           last == sorted[n]
       IN  IF Less(Zero, Sub(x[1], last[1]))
           THEN Append(insertDesc(SubSeq(sorted, 1, n - 1), x), last)
           ELSE Append(sorted, x)

RECURSIVE sortDesc(_)
sortDesc(pairs) ==
  IF pairs = <<>> THEN <<>>
  ELSE LET n == Len(pairs)
       IN  insertDesc(sortDesc(SubSeq(pairs, 1, n - 1)), pairs[n])

items(pairs) == [i \in 1..Len(pairs) |-> pairs[i][2]]

driftEntries(targets, alloc) ==
  [i \in 1..Len(ASSET_TYPES) |->
     LET t == ASSET_TYPES[i]
         target == IF t \in DOMAIN targets.allocation
                   THEN Coalesce(targets.allocation[t], Zero) ELSE Zero
         actual == alloc[t]
     IN  [type |-> t, target |-> target, actual |-> actual, diff |-> Sub(actual, target)]]

driftOf(targets, alloc) ==
  LET out == driftEntries(targets, alloc)
  IN  items(sortDesc([i \in 1..Len(out) |-> <<Abs(out[i].diff), out[i]>>]))

drift(s, ab, pmv) == driftOf(s.targets, allocationActual(ab, pmv))

\* variant of isAlerting with > in place of >=
isAlertingAbove(s, d) == Less(Coalesce(s.targets.driftThreshold, R(5)), Abs(d.diff))

\* Math.abs(d.diff) >= (state.targets.driftThreshold ?? 5)
isAlerting(s, d) == GreaterEq(Abs(d.diff), Coalesce(s.targets.driftThreshold, R(5)))

rebalanceAlerts(s, ab, pmv) == SelectSeq(drift(s, ab, pmv), LAMBDA d : isAlerting(s, d))

NoAlert == [kind |-> "none", from |-> "", to |-> "", movePct |-> Zero, moveAmount |-> Zero]

\* variant of suggestRebalance that moves the whole of the source's diff
suggestRebalanceSourceDiff(driftList, total) ==
  LET overs == SelectSeq(driftList, LAMBDA d : Less(Zero, d.diff))
      unders == SelectSeq(driftList, LAMBDA d : Less(d.diff, Zero))
      overSorted == items(sortDesc([i \in 1..Len(overs) |-> <<overs[i].diff, overs[i]>>]))
      underSorted == items(sortDesc([i \in 1..Len(unders) |-> <<Neg(unders[i].diff), unders[i]>>]))
  IN  IF overSorted = <<>> \/ underSorted = <<>>
      THEN [NoAlert EXCEPT !.kind = "no-suggestion"]
      ELSE LET over == overSorted[1]
               under == underSorted[1]
               movePct == over.diff
           IN  [kind |-> "suggestion", from |-> over.type, to |-> under.type,
                movePct |-> movePct,
                moveAmount |-> Round(Mul(total, Div(movePct, R(100))))]

\* the alert of suggestRebalance
suggestRebalance(driftList, total) ==
  LET overs == SelectSeq(driftList, LAMBDA d : Less(Zero, d.diff))
      unders == SelectSeq(driftList, LAMBDA d : Less(d.diff, Zero))
      overSorted == items(sortDesc([i \in 1..Len(overs) |-> <<overs[i].diff, overs[i]>>]))
      underSorted == items(sortDesc([i \in 1..Len(unders) |-> <<Neg(unders[i].diff), unders[i]>>]))
  IN  IF overSorted = <<>> \/ underSorted = <<>>
      THEN [NoAlert EXCEPT !.kind = "no-suggestion"]
      ELSE LET over == overSorted[1]
               under == underSorted[1]
               movePct == Min(over.diff, Neg(under.diff))
           IN  [kind |-> "suggestion", from |-> over.type, to |-> under.type,
                movePct |-> movePct,
                moveAmount |-> Round(Mul(total, Div(movePct, R(100))))]

-----------------------------------------------------------------------------
(* Storage *)

\* JSON.stringify of a numeric property: undefined drops the property, a
\* non-finite number is written as null
jsonNumber(v) ==
  IF v = Undefined THEN Absent
  ELSE IF IsNumber(v) /\ ~IsFinite(v) THEN Null
  ELSE v

\* JSON.stringify of an account reference
jsonId(v) == IF v = UndefinedId THEN AbsentId ELSE v

\* The document JSON.stringify(state) writes, as the value JSON.parse reads back
JSONstringify(s) ==
  [settings |-> [s.settings EXCEPT !.usdKrw = jsonNumber(@)],
   accounts |-> [i \in 1..Len(s.accounts) |->
                   [s.accounts[i] EXCEPT !.openingBalance = jsonNumber(@)]],
   transactions |-> [i \in 1..Len(s.transactions) |->
                   [s.transactions[i] EXCEPT !.accountId = jsonId(@),
                      !.amount = jsonNumber(@), !.fee = jsonNumber(@), !.tax = jsonNumber(@)]],
   positions |-> [i \in 1..Len(s.positions) |->
                   [s.positions[i] EXCEPT !.accountId = jsonId(@), !.qty = jsonNumber(@),
                      !.avgPrice = jsonNumber(@), !.lastPrice = jsonNumber(@)]],
   goals |-> [i \in 1..Len(s.goals) |-> [s.goals[i] EXCEPT !.target = jsonNumber(@)]],
   targets |-> [allocation |-> [t \in DOMAIN s.targets.allocation |->
                                  jsonNumber(s.targets.allocation[t])],
                driftThreshold |-> jsonNumber(s.targets.driftThreshold)]]

\* localStorage.getItem(STORAGE_KEY) === null
NoItem == [kind |-> "none", doc |-> <<>>]

\* text that JSON.parse rejects
Garbage == [kind |-> "garbage", doc |-> <<>>]

Json(doc) == [kind |-> "json", doc |-> doc]

\* the text null: JSON.parse accepts it and returns null
JsonNull == [kind |-> "null", doc |-> <<>>]

\* the item saveState(state) writes
saveState(s) == Json(JSONstringify(s))

\* variant of loadOrSeed that starts from the seed whatever is stored
loadOrSeedIgnoresStored(raw) == [value |-> seed, isSeed |-> TRUE]

\* loadState() ?? seed, and whether the result is the seed object itself.
\* loadState() returns null when there is no item, when the text does not
\* parse, and when the text parses to null; ?? takes the seed for null.
loadOrSeed(raw) ==
  IF raw.kind = "json" THEN [value |-> raw.doc, isSeed |-> FALSE]
  ELSE [value |-> seed, isSeed |-> TRUE]

-----------------------------------------------------------------------------
(* Net-worth series.  A date "YYYY-MM-DD" is <<year, month, day>> and a     *)
(* month "YYYY-MM" is <<year, month>>.                                      *)

\* The local time zone of the session, by the sign of its offset from UTC.
\* new Date("YYYY-MM-DD") is midnight UTC of that day; getFullYear() and
\* getMonth() read it in local time, which west of UTC is the day before.
TimeZones == {"east", "west"}

\* t.date.slice(0, 7)
monthOf(date) == <<date[1], date[2]>>

prevMonth(m) == IF m[2] = 1 THEN <<m[1] - 1, 12>> ELSE <<m[1], m[2] - 1>>

\* d.setMonth(d.getMonth() + 1)
nextMonth(m) == IF m[2] = 12 THEN <<m[1] + 1, 1>> ELSE <<m[1], m[2] + 1>>

monthLeq(a, b) == a[1] < b[1] \/ (a[1] = b[1] /\ a[2] <= b[2])

\* a.date.localeCompare(b.date) < 0
dateLess(a, b) ==
  \/ a[1] < b[1]
  \/ a[1] = b[1] /\ a[2] < b[2]
  \/ a[1] = b[1] /\ a[2] = b[2] /\ a[3] < b[3]

\* year and month of new Date(date) in local time
localMonth(date, tz) ==
  IF tz = "west" /\ date[3] = 1 THEN prevMonth(monthOf(date)) ELSE monthOf(date)

\* year and month of new Date() in local time (the same in every zone on
\* the third day of a month)
currentMonth == monthOf(Today)

\* while (d <= end) { months.push(...); d.setMonth(d.getMonth() + 1) }
RECURSIVE monthsFrom(_, _)
monthsFrom(m, end) ==
  IF monthLeq(m, end) THEN <<m>> \o monthsFrom(nextMonth(m), end) ELSE <<>>

\* Array.prototype.sort by date, ascending and stable
RECURSIVE insertByDate(_, _)
insertByDate(sorted, t) ==
  IF sorted = <<>> THEN <<t>>
  ELSE LET n == Len(sorted)
       IN  IF dateLess(t.date, sorted[n].date)
           THEN Append(insertByDate(SubSeq(sorted, 1, n - 1), t), sorted[n])
           ELSE Append(sorted, t)

RECURSIVE sortByDate(_)
sortByDate(txs) ==
  IF txs = <<>> THEN <<>>
  ELSE insertByDate(sortByDate(SubSeq(txs, 1, Len(txs) - 1)), txs[Len(txs)])

\* accountsById[id]?.currency ?? state.settings.baseCurrency
currencyOfAccount(s, id) ==
  LET idx == {i \in 1..Len(s.accounts) : s.accounts[i].id = id}
  IN  IF idx = {} THEN s.settings.baseCurrency
      ELSE s.accounts[CHOOSE i \in idx : \A j \in idx : j <= i].currency

\* delta of one transaction in the net-worth series
seriesDelta(s, t) ==
  LET baseAmt == toBase(s, netAmount(t), currencyOfAccount(s, t.accountId))
  IN  IF IsInflow(t.type) THEN baseAmt
      ELSE IF IsOutflow(t.type) THEN Neg(baseAmt)
      ELSE Zero

\* the series computed in a session of time zone tz
seriesIn(s, pmv, tz) ==
  LET txs == sortByDate(JSONstringify(s).transactions)
  IN  IF txs = <<>> THEN <<>>
      ELSE LET months == monthsFrom(localMonth(txs[1].date, tz), currentMonth)
               cashBase == addUp([i \in 1..Len(s.accounts) |->
                                    toBase(s, ensureNumber(s.accounts[i].openingBalance, Zero),
                                           s.accounts[i].currency)])
               monthly(m) == LET mine == SelectSeq(txs, LAMBDA t : monthOf(t.date) = m)
                             IN  addUp([i \in 1..Len(mine) |-> seriesDelta(s, mine[i])])
               running(k) == addUp(<<cashBase>> \o [j \in 1..k |-> monthly(months[j])])
               positionsBase == sum([i \in 1..Len(pmv) |-> pmv[i].marketValueBase])
           IN  [k \in 1..Len(months) |->
                  [month |-> months[k],
                   cash |-> IF k = Len(months) THEN Add(running(k), positionsBase)
                            ELSE running(k)]]

\* the value the netWorthSeries memo takes when it is recomputed, for each
\* time zone the session can run in
computeNetWorthSeries(s, pmv) == [tz \in TimeZones |-> seriesIn(s, pmv, tz)]

-----------------------------------------------------------------------------
(* Reports: ReportsView computes its rows at every render *)

\* variant of grossBase that takes fee and tax off the amount
grossBaseLessCosts(s, t) == toBase(s, netAmount(t), currencyOfAccount(s, t.accountId))

\* toBase(ensureNumber(t.amount), acc?.currency ?? state.settings.baseCurrency)
grossBase(s, t) == toBase(s, ensureNumber(t.amount, Zero), currencyOfAccount(s, t.accountId))

\* ["Income","Deposit","Sell"].includes(t.type)
IsIncome(type) == type \in {"Income", "Deposit", "Sell"}

\* ["Expense","Withdraw","Buy"].includes(t.type)
IsExpense(type) == type \in {"Expense", "Withdraw", "Buy"}

\* monthlyRows[m] after the loop over state.transactions
reportRow(s, m) ==
  LET mine == SelectSeq(s.transactions, LAMBDA t : monthOf(t.date) = m)
      inc == SelectSeq(mine, LAMBDA t : IsIncome(t.type))
      exp == SelectSeq(mine, LAMBDA t : IsExpense(t.type))
  IN  [month |-> m,
       income |-> addUp([i \in 1..Len(inc) |-> grossBase(s, inc[i])]),
       expense |-> addUp([i \in 1..Len(exp) |-> grossBase(s, exp[i])])]

\* the keys of monthlyRows sorted by localeCompare
RECURSIVE sortMonths(_)
sortMonths(ms) ==
  IF ms = {} THEN <<>>
  ELSE LET m == CHOOSE x \in ms : \A y \in ms : monthLeq(x, y)
       IN  <<m>> \o sortMonths(ms \ {m})

\* `monthly` of ReportsView
monthlyReport(s) ==
  LET ms == sortMonths({monthOf(s.transactions[i].date) : i \in 1..Len(s.transactions)})
  IN  [k \in 1..Len(ms) |-> reportRow(s, ms[k])]

-----------------------------------------------------------------------------
(* Goals: GoalsView computes the progress of a goal at every render *)

\* variant of progressFor that adds the balances in the accounts' own currencies
progressForUnconverted(ab, goal) ==
  LET linked == SelectSeq(ab, LAMBDA a : a.id \in Range(goal.accountIds))
      val == sum([i \in 1..Len(linked) |-> linked[i].balance])
      pct == IF Less(Zero, ToNumber(goal.target))
             THEN Mul(Div(val, ToNumber(goal.target)), R(100)) ELSE Zero
  IN  [val |-> val, pct |-> pct]

progressFor(ab, goal) ==
  LET linked == SelectSeq(ab, LAMBDA a : a.id \in Range(goal.accountIds))
      val == sum([i \in 1..Len(linked) |-> linked[i].balanceBase])
      pct == IF Less(Zero, ToNumber(goal.target))
             THEN Mul(Div(val, ToNumber(goal.target)), R(100)) ELSE Zero
  IN  [val |-> val, pct |-> pct]

-----------------------------------------------------------------------------
(* Documents written by earlier sessions, whose ids are not this session's. *)
(* Each is a record set the mutators reach from the seed: DocEmptyCash by   *)
(* removing the seed's accounts and goals and adding the untouched account  *)
(* form, DocHalf by removing them and adding two accounts and a goal.       *)

DocEmptyCash ==
  [settings |-> seedSettings,
   accounts |-> << [id |-> 11, name |-> "", type |-> "Cash", currency |-> "KRW",
                    openingBalance |-> R(0)] >>,
   transactions |-> <<>>, positions |-> <<>>, goals |-> <<>>,
   targets |-> seedTargets]

DocHalf ==
  [settings |-> seedSettings,
   accounts |-> << [id |-> 11, name |-> "wallet", type |-> "Cash", currency |-> "KRW",
                    openingBalance |-> R(2500000)],
                   [id |-> 12, name |-> "broker", type |-> "Stock", currency |-> "KRW",
                    openingBalance |-> R(2500000)] >>,
   transactions |-> <<>>, positions |-> <<>>,
   goals |-> << [id |-> 13, name |-> "trip", target |-> R(5000000), accountIds |-> <<11>>] >>,
   targets |-> seedTargets]

\* what the session may find under the storage key when it starts
InitialBlobs == <<NoItem, Garbage, JsonNull, Json(DocEmptyCash), Json(DocHalf)>>

InitialStorage == Range(InitialBlobs)

ImportFiles == {Garbage, Json(DocEmptyCash), Json(DocHalf)}

-----------------------------------------------------------------------------
(* State *)

\* the arrays of the record set that a memo dependency list names
AllArrays == {"accounts", "transactions", "positions"}

\* ids in use; uid() returns one that is not
UsedIds(s) ==
  UNION { {c[i].id : i \in 1..Len(c)} : c \in {s.accounts, s.transactions, s.positions, s.goals} }
    \cup {s.transactions[i].accountId : i \in 1..Len(s.transactions)}
    \cup {s.positions[i].accountId : i \in 1..Len(s.positions)}
    \cup UNION {Range(s.goals[i].accountIds) : i \in 1..Len(s.goals)}

uid(s) == CHOOSE i \in 21..(22 + MaxOps) : i \notin UsedIds(s) /\ \A j \in 21..(i - 1) : j \in UsedIds(s)

\* lastOp.id of the mount is the place in InitialBlobs of the blob found
Init ==
  \E b \in 1..Len(InitialBlobs) :
    LET raw == InitialBlobs[b]
        loaded == loadOrSeed(raw)
    IN  /\ state = loaded.value
        /\ refSeed = [state |-> loaded.isSeed, accounts |-> loaded.isSeed,
                      transactions |-> loaded.isSeed, positions |-> loaded.isSeed]
        /\ storage = saveState(loaded.value)
        /\ accountBalances = computeAccountBalances(loaded.value)
        /\ positionsMV = computePositionsMV(loaded.value)
        /\ netWorthSeries = computeNetWorthSeries(loaded.value, computePositionsMV(loaded.value))
        /\ alert = NoAlert
        /\ lastOp = [op |-> "mount", id |-> b]
        /\ ops = 0

\* The render that follows setState(s2) and its effect: a memo is recomputed
\* when a dependency changed identity (`changed`: the arrays that are new
\* objects; the net-worth series lists the base currency too), and
\* useEffect(() => saveState(state), [state]) writes the item.
Commit(s2, changed, al, op) ==
  /\ ops < MaxOps
  /\ state' = s2
  /\ refSeed' = [state |-> FALSE,
                 accounts |-> refSeed.accounts /\ "accounts" \notin changed,
                 transactions |-> refSeed.transactions /\ "transactions" \notin changed,
                 positions |-> refSeed.positions /\ "positions" \notin changed]
  /\ accountBalances' = IF changed \cap {"accounts", "transactions"} # {}
                        THEN computeAccountBalances(s2) ELSE accountBalances
  /\ positionsMV' = IF "positions" \in changed THEN computePositionsMV(s2) ELSE positionsMV
  /\ netWorthSeries' = IF changed # {} \/ s2.settings.baseCurrency # state.settings.baseCurrency
                       THEN computeNetWorthSeries(s2, positionsMV') ELSE netWorthSeries
  /\ storage' = saveState(s2)
  /\ alert' = al
  /\ lastOp' = op
  /\ ops' = ops + 1

\* An event that calls no setState: nothing renders and no effect runs
NoCommit(al, op) ==
  /\ ops < MaxOps
  /\ alert' = al
  /\ lastOp' = op
  /\ ops' = ops + 1
  /\ UNCHANGED <<state, refSeed, storage, accountBalances, positionsMV, netWorthSeries>>

Op(name, id) == [op |-> name, id |-> id]

-----------------------------------------------------------------------------
(* Forms: what the dialogs hand to the mutators.  The amounts entered are   *)
(* multiples of 2500 KRW, like the seed's, so that every derived fraction  *)
(* stays within TLC's 32-bit integers (TLC stops on an overflow).          *)

\* AddAccountDialog: the untouched form, and two filled ones
AccountForms(s) ==
  { [name |-> "", type |-> "Cash", currency |-> s.settings.baseCurrency, openingBalance |-> R(0)],
    [name |-> "bonds", type |-> "Bond", currency |-> "USD", openingBalance |-> R(100)],
    [name |-> "loan", type |-> "Other", currency |-> "KRW", openingBalance |-> R(-3000000)] }

\* state.accounts[0]?.id
firstAccountId(s) == IF Len(s.accounts) > 0 THEN s.accounts[1].id ELSE UndefinedId

\* state.accounts.find(a => a.type !== "Cash")?.id
firstNonCashId(s) ==
  LET idx == {i \in 1..Len(s.accounts) : s.accounts[i].type # "Cash"}
  IN  IF idx = {} THEN UndefinedId
      ELSE s.accounts[CHOOSE i \in idx : \A j \in idx : i <= j].id

\* the account a dialog submits: its default when the Select is left alone
\* ("default"), or the last of the accounts listed when one is picked
pickedAccount(s, default, pick) ==
  IF pick = "last" /\ Len(s.accounts) > 0 THEN s.accounts[Len(s.accounts)].id ELSE default

\* AddTxDialog: one filled form for each transaction type
TxForms ==
  { [date |-> Today, type |-> "Deposit", amount |-> R(50000), fee |-> R(5000), tax |-> R(2500),
     pick |-> "default"],
    [date |-> <<2026, 9, 1>>, type |-> "Withdraw", amount |-> R(20000), fee |-> R(2500),
     tax |-> R(0), pick |-> "default"],
    [date |-> Today, type |-> "Buy", amount |-> R(30000), fee |-> R(7500), tax |-> R(0),
     pick |-> "last"],
    [date |-> <<2026, 9, 15>>, type |-> "Sell", amount |-> R(40000), fee |-> R(2500),
     tax |-> R(10000), pick |-> "last"],
    [date |-> Today, type |-> "Income", amount |-> R(100000), fee |-> R(0), tax |-> R(12500),
     pick |-> "default"],
    [date |-> <<2025, 12, 31>>, type |-> "Expense", amount |-> R(50000), fee |-> R(0),
     tax |-> R(0), pick |-> "last"] }

\* AddPositionDialog: the untouched form, and a filled one
PositionForms(s) ==
  { [name |-> "", assetType |-> "Stock", qty |-> R(0), avgPrice |-> R(0), lastPrice |-> R(0),
     currency |-> s.settings.baseCurrency, pick |-> "default"],
    [name |-> "T-note", assetType |-> "Bond", qty |-> R(10), avgPrice |-> R(100),
     lastPrice |-> R(110), currency |-> "USD", pick |-> "last"] }

\* GoalsView dialog: forms with every account linked
GoalForms(s) ==
  LET all == [i \in 1..Len(s.accounts) |-> s.accounts[i].id]
  IN  { [name |-> "house", target |-> R(1000000), accountIds |-> all],
        [name |-> "none", target |-> R(0), accountIds |-> all] }

\* what the price prompt returns through Number(...): a typed number (here
\* the average cost), or NaN for text that is no number
PriceInputs(p) == {ToNumber(p.avgPrice), NaN}

-----------------------------------------------------------------------------
(* Mutators *)

addAccount ==
  \E payload \in AccountForms(state) :
    LET id == uid(state)
        a == [id |-> id, name |-> payload.name, type |-> payload.type,
              currency |-> payload.currency, openingBalance |-> payload.openingBalance]
    IN  Commit([state EXCEPT !.accounts = Append(@, a)], {"accounts"}, NoAlert,
               Op("addAccount", id))

\* variant of removeAccount that keeps the positions of the account
removeAccountKeepsPositions ==
  \E id \in AccountIds(state) :
    Commit([state EXCEPT
              !.accounts = SelectSeq(@, LAMBDA a : a.id # id),
              !.transactions = SelectSeq(@, LAMBDA t : t.accountId # id)],
           {"accounts", "transactions", "positions"}, NoAlert, Op("removeAccount", id))

\* variant of removeAccount that also takes the account out of the goals
removeAccountUnlinksGoals ==
  \E id \in AccountIds(state) :
    Commit([state EXCEPT
              !.accounts = SelectSeq(@, LAMBDA a : a.id # id),
              !.transactions = SelectSeq(@, LAMBDA t : t.accountId # id),
              !.positions = SelectSeq(@, LAMBDA q : q.accountId # id),
              !.goals = [i \in 1..Len(@) |->
                           [@[i] EXCEPT !.accountIds = SelectSeq(@, LAMBDA x : x # id)]]],
           {"accounts", "transactions", "positions"}, NoAlert, Op("removeAccount", id))

removeAccount ==
  \E id \in AccountIds(state) :
    Commit([state EXCEPT
              !.accounts = SelectSeq(@, LAMBDA a : a.id # id),
              !.transactions = SelectSeq(@, LAMBDA t : t.accountId # id),
              !.positions = SelectSeq(@, LAMBDA q : q.accountId # id)],
           {"accounts", "transactions", "positions"}, NoAlert, Op("removeAccount", id))

addTransaction ==
  \E form \in TxForms :
    LET id == uid(state)
        acc == pickedAccount(state, firstAccountId(state), form.pick)
        t == [id |-> id, date |-> form.date, accountId |-> acc, type |-> form.type,
              amount |-> form.amount, fee |-> form.fee, tax |-> form.tax]
    IN  Commit([state EXCEPT !.transactions = Append(@, t)], {"transactions"}, NoAlert,
               Op("addTransaction", id))

removeTransaction ==
  \E id \in {state.transactions[i].id : i \in 1..Len(state.transactions)} :
    Commit([state EXCEPT !.transactions = SelectSeq(@, LAMBDA t : t.id # id)],
           {"transactions"}, NoAlert, Op("removeTransaction", id))

addPosition ==
  \E form \in PositionForms(state) :
    LET id == uid(state)
        acc == pickedAccount(state, firstNonCashId(state), form.pick)
        q == [id |-> id, accountId |-> acc, name |-> form.name, assetType |-> form.assetType,
              qty |-> form.qty, avgPrice |-> form.avgPrice, currency |-> form.currency,
              lastPrice |-> form.lastPrice]
    IN  Commit([state EXCEPT !.positions = Append(@, q)], {"positions"}, NoAlert,
               Op("addPosition", id))

\* variant of updatePosition that patches every position
updatePositionPatchesAll ==
  \E i \in 1..Len(state.positions) : \E price \in PriceInputs(state.positions[i]) :
    LET id == state.positions[i].id
    IN  Commit([state EXCEPT !.positions =
                  [k \in 1..Len(@) |-> [@[k] EXCEPT !.lastPrice = price]]],
               {"positions"}, NoAlert, Op("updatePosition", id))

updatePosition ==
  \E i \in 1..Len(state.positions) : \E price \in PriceInputs(state.positions[i]) :
    LET id == state.positions[i].id
    IN  Commit([state EXCEPT !.positions =
                  [k \in 1..Len(@) |-> IF @[k].id = id THEN [@[k] EXCEPT !.lastPrice = price]
                                        ELSE @[k]]],
               {"positions"}, NoAlert, Op("updatePosition", id))

removePosition ==
  \E id \in {state.positions[i].id : i \in 1..Len(state.positions)} :
    Commit([state EXCEPT !.positions = SelectSeq(@, LAMBDA q : q.id # id)],
           {"positions"}, NoAlert, Op("removePosition", id))

addGoal ==
  \E form \in GoalForms(state) :
    LET id == uid(state)
        g == [id |-> id, name |-> form.name, target |-> form.target,
              accountIds |-> form.accountIds]
    IN  Commit([state EXCEPT !.goals = Append(@, g)], {}, NoAlert, Op("addGoal", id))

removeGoal ==
  \E id \in {state.goals[i].id : i \in 1..Len(state.goals)} :
    Commit([state EXCEPT !.goals = SelectSeq(@, LAMBDA g : g.id # id)], {}, NoAlert,
           Op("removeGoal", id))

-----------------------------------------------------------------------------
(* Settings, import, reset, rebalancing suggestion *)

\* deepClone of an allocation map: JSON.parse(JSON.stringify(v))
deepCloneAllocation(alloc) == [t \in DOMAIN alloc |-> jsonNumber(alloc[t])]

AltAllocation ==
  [t \in Range(ASSET_TYPES) |->
     CASE t = "Cash" -> R(50) [] t = "Stock" -> R(40) [] OTHER -> R(0)]

\* SettingsView: the form as saved.  Either the currency and the rate are
\* set and the targets left as loaded, or the targets alone are edited.
SettingsForms(s) ==
  { [baseCurrency |-> b, usdKrw |-> r, risk |-> s.settings.riskProfile,
     alloc |-> deepCloneAllocation(s.targets.allocation),
     driftTh |-> s.targets.driftThreshold] :
      b \in Range(CURRENCIES), r \in {R(1350), R(0)} }
  \cup
  { [baseCurrency |-> s.settings.baseCurrency, usdKrw |-> s.settings.usdKrw,
     risk |-> s.settings.riskProfile, alloc |-> AltAllocation, driftTh |-> R(10)] }

\* Math.abs(total - 100) > 0.01
needsConfirm(alloc) ==
  LET total == sum([i \in 1..Len(ASSET_TYPES) |-> ToNumber(alloc[ASSET_TYPES[i]])])
  IN  Less(<<1, 100>>, Abs(Sub(total, R(100))))

saveAll ==
  \E form \in SettingsForms(state) :
    \E confirmed \in (IF needsConfirm(form.alloc) THEN BOOLEAN ELSE {TRUE}) :
    IF ~confirmed
    THEN NoCommit(NoAlert, Op("saveAll", 0))
    ELSE /\ confirmed
         /\ Commit([state EXCEPT
                      !.settings = [@ EXCEPT !.baseCurrency = form.baseCurrency,
                                             !.usdKrw = ensureNumber(form.usdKrw, Zero),
                                             !.riskProfile = form.risk],
                      !.targets = [@ EXCEPT !.allocation = form.alloc,
                                            !.driftThreshold = ensureNumber(form.driftTh, R(5))]],
                    {}, [NoAlert EXCEPT !.kind = "saved"], Op("saveAll", 1))

\* exportJSON: the text of the downloaded file, JSON.stringify(state, null, 2)
exportedFile(s) == Json(JSONstringify(s))

\* the download changes nothing in the application
exportJSON == NoCommit(NoAlert, Op("exportJSON", 0))

\* the files the file input can be given: the files at hand, and the file
\* just downloaded
FilesAtHand ==
  ImportFiles \cup (IF lastOp.op = "exportJSON" THEN {exportedFile(state)} ELSE {})

\* variant of importJSON that resets to the seed and tells nothing when the
\* text does not parse
importJSONResetsOnFailure ==
  \E file \in FilesAtHand :
    IF file.kind = "json"
    THEN Commit(file.doc, AllArrays, NoAlert, Op("importJSON", 1))
    ELSE Commit(seed, AllArrays, NoAlert, Op("importJSON", 0))

importJSON ==
  \E file \in FilesAtHand :
    IF file.kind = "json"
    THEN Commit(file.doc, AllArrays, NoAlert, Op("importJSON", 1))
    ELSE NoCommit([NoAlert EXCEPT !.kind = "parse-failed"], Op("importJSON", 0))

\* The reset button: localStorage.removeItem(STORAGE_KEY); setState(seed).
\* setState with the object already held is no update: nothing renders and
\* the effect does not run.  A memo is recomputed where seed's array is not
\* the array already held.
reset ==
  \E confirmed \in BOOLEAN :
    IF ~confirmed THEN NoCommit(NoAlert, Op("reset", 0))
    ELSE /\ ops < MaxOps
         /\ state' = seed
         /\ refSeed' = [state |-> TRUE, accounts |-> TRUE, transactions |-> TRUE,
                        positions |-> TRUE]
         /\ accountBalances' = IF refSeed.accounts /\ refSeed.transactions
                               THEN accountBalances ELSE computeAccountBalances(seed)
         /\ positionsMV' = IF refSeed.positions THEN positionsMV ELSE computePositionsMV(seed)
         /\ netWorthSeries' =
              IF /\ refSeed.accounts /\ refSeed.transactions /\ refSeed.positions
                 /\ state.settings.baseCurrency = seed.settings.baseCurrency
              THEN netWorthSeries ELSE computeNetWorthSeries(seed, positionsMV')
         /\ storage' = IF refSeed.state THEN NoItem ELSE saveState(seed)
         /\ alert' = NoAlert
         /\ lastOp' = Op("reset", 1)
         /\ ops' = ops + 1

\* the button of an alerting drift row
suggest ==
  /\ rebalanceAlerts(state, accountBalances, positionsMV) # <<>>
  /\ NoCommit(suggestRebalance(drift(state, accountBalances, positionsMV),
                               totalAssetsBase(accountBalances, positionsMV)),
              Op("suggestRebalance", 0))

Next ==
  \/ addAccount
  \/ removeAccount
  \/ addTransaction
  \/ removeTransaction
  \/ addPosition
  \/ updatePosition
  \/ removePosition
  \/ addGoal
  \/ removeGoal
  \/ saveAll
  \/ exportJSON
  \/ importJSON
  \/ reset
  \/ suggest

Spec == Init /\ [][Next]_vars

-----------------------------------------------------------------------------
(* Derived values of the current render *)

totals == totalsByType(accountBalances, positionsMV)

total == totalAssetsBase(accountBalances, positionsMV)

allocation == allocationActual(accountBalances, positionsMV)

driftList == drift(state, accountBalances, positionsMV)

alerts == rebalanceAlerts(state, accountBalances, positionsMV)

Types == Range(ASSET_TYPES)

-----------------------------------------------------------------------------
(* C1 *)

\* the transactions of account id, in list order
txsOf(s, id) == SelectSeq(s.transactions, LAMBDA t : t.accountId = id)

RECURSIVE signedTotal(_)
signedTotal(txs) ==
  IF txs = <<>> THEN Zero
  ELSE LET t == Head(txs)
           net == Sub(t.amount, Add(t.fee, t.tax))
       IN  Add(IF t.type \in {"Deposit", "Income", "Sell"} THEN net
               ELSE IF t.type \in {"Withdraw", "Expense", "Buy"} THEN Neg(net)
               ELSE Zero,
               signedTotal(Tail(txs)))

\* C1: the balance shown for every account of the record set is its opening
\* balance plus (amount - fee - tax) of each of its Deposit/Income/Sell
\* transactions minus (amount - fee - tax) of each of its
\* Withdraw/Expense/Buy transactions; with no transaction it is the opening
\* balance; the seed's first account (2,000,000 and one Deposit of
\* 1,000,000) shows 3,000,000.
C1_BalanceIsOpeningPlusSignedNet ==
  /\ Len(accountBalances) = Len(state.accounts)
  /\ \A i \in 1..Len(state.accounts) :
       LET a == state.accounts[i]
       IN  /\ accountBalances[i].id = a.id
           /\ accountBalances[i].balance = Add(a.openingBalance, signedTotal(txsOf(state, a.id)))
           /\ txsOf(state, a.id) = <<>> => accountBalances[i].balance = a.openingBalance
  /\ (state.accounts = seed.accounts /\ state.transactions = seed.transactions)
       => accountBalances[1].balance = R(3000000)

\* an account with an inflow and an outflow, fee and tax not both zero
C1_Witness ==
  \E i \in 1..Len(state.accounts) :
    LET txs == txsOf(state, state.accounts[i].id)
    IN  /\ \E k \in 1..Len(txs) : IsInflow(txs[k].type)
        /\ \E k \in 1..Len(txs) : IsOutflow(txs[k].type) /\ txs[k].fee # Zero
        /\ accountBalances[i].balance # state.accounts[i].openingBalance

-----------------------------------------------------------------------------
(* C2 *)

RECURSIVE withoutId(_, _)
withoutId(seq, id) ==
  IF seq = <<>> THEN <<>>
  ELSE IF Head(seq).id = id THEN withoutId(Tail(seq), id)
  ELSE <<Head(seq)>> \o withoutId(Tail(seq), id)

RECURSIVE withoutAccount(_, _)
withoutAccount(seq, id) ==
  IF seq = <<>> THEN <<>>
  ELSE IF Head(seq).accountId = id THEN withoutAccount(Tail(seq), id)
  ELSE <<Head(seq)>> \o withoutAccount(Tail(seq), id)

\* C2: removeAccount(id) removes the account of that id and every
\* transaction and position whose accountId is id, and leaves the other
\* accounts, transactions and positions as they were, in their order.
C2_RemoveAccountCascades ==
  [][lastOp'.op = "removeAccount" =>
       /\ state'.accounts = withoutId(state.accounts, lastOp'.id)
       /\ state'.transactions = withoutAccount(state.transactions, lastOp'.id)
       /\ state'.positions = withoutAccount(state.positions, lastOp'.id)
       /\ lastOp'.id \notin AccountIds(state')]_vars

\* the seed's second account was removed: its position went, the first
\* account's transaction and the third account's position stayed
C2_Witness ==
  /\ lastOp = Op("removeAccount", 2)
  /\ state.accounts = <<seed.accounts[1], seed.accounts[3], seed.accounts[4]>>
  /\ state.transactions = seed.transactions
  /\ state.positions = <<seed.positions[2]>>

-----------------------------------------------------------------------------
(* C3 *)

\* C3: in every reachable state every transaction's and every position's
\* accountId is the id of an account of the record set.
C3_ReferencesExist ==
  /\ \A i \in 1..Len(state.transactions) : state.transactions[i].accountId \in AccountIds(state)
  /\ \A i \in 1..Len(state.positions) : state.positions[i].accountId \in AccountIds(state)

-----------------------------------------------------------------------------
(* C4 *)

\* C4: after every mutation, a settings save included, the derived values
\* shown are those recomputed from the current record set and settings.
C4_DerivedAreFresh ==
  /\ accountBalances = computeAccountBalances(state)
  /\ positionsMV = computePositionsMV(state)

-----------------------------------------------------------------------------
(* C5 *)

\* C5: after every mutation (a reset to the seed included) the item under
\* the storage key is the document of the current record set.
C5_StorageHoldsState ==
  /\ storage.kind = "json"
  /\ storage.doc = JSONstringify(state)

-----------------------------------------------------------------------------
(* C6 *)

allocationSumOf(alloc) == addUp([i \in 1..Len(ASSET_TYPES) |-> alloc[ASSET_TYPES[i]]])

sumsTo100(alloc, tot) ==
  /\ Less(Zero, tot) => allocationSumOf(alloc) = R(100)
  /\ tot = Zero => \A t \in Types : alloc[t] = Zero

\* C6: the allocation percentages of the seven asset types sum to 100 when
\* total assets is greater than zero, and are all zero when it is zero.
C6_AllocationSumsTo100 == sumsTo100(allocation, total)

-----------------------------------------------------------------------------
(* C7 *)

typeTotal(tots, t) == IF t \in DOMAIN tots THEN tots[t] ELSE Zero

\* pct is 100 x v / tot: for a finite v, pct x (tot / 100) is v again; an
\* infinite or NaN v gives the quotient's infinite or NaN value
isPercentage(pct, v, tot) ==
  IF IsFinite(v) THEN IsFinite(pct) /\ Mul(pct, Div(tot, R(100))) = v
  ELSE pct = Div(v, tot)

originalRule(alloc, tots, tot) ==
  \A t \in Types :
    IF tot = Zero THEN alloc[t] = Zero
    ELSE isPercentage(alloc[t], typeTotal(tots, t), tot)

amendedRule(alloc, tots, tot) ==
  \A t \in Types :
    IF Less(Zero, tot) THEN isPercentage(alloc[t], typeTotal(tots, t), tot)
    ELSE alloc[t] = Zero

\* C7 as stated: the percentage of each asset type is 100 x (the type's
\* total) / (grand total), and is 0 exactly when the grand total is zero.
C7_Original == originalRule(allocation, totals, total)

\* C7 amended: the percentage of each asset type is 100 x (the type's
\* total) / (grand total) when the grand total is greater than zero, and is
\* 0 whenever the grand total is zero or negative.
C7_PercentageOrZero == amendedRule(allocation, totals, total)

\* a negative grand total with a type whose total is not zero and whose
\* percentage is 0
C7_Witness ==
  LET tots == totals
      alloc == allocation
  IN  /\ Less(total, Zero)
      /\ \E t \in Types : typeTotal(tots, t) # Zero /\ alloc[t] = Zero

-----------------------------------------------------------------------------
(* C8 *)

posOf(t) == CHOOSE i \in 1..Len(ASSET_TYPES) : ASSET_TYPES[i] = t

driftSorted(dl, alloc, targets) ==
  /\ Len(dl) = Len(ASSET_TYPES)
  /\ \A i \in 1..Len(ASSET_TYPES) :
       \E k \in 1..Len(dl) :
         /\ dl[k].type = ASSET_TYPES[i]
         /\ dl[k].actual = alloc[ASSET_TYPES[i]]
         /\ dl[k].target = targets.allocation[ASSET_TYPES[i]]
         /\ dl[k].diff = Sub(dl[k].actual, dl[k].target)
  /\ \A k \in 1..(Len(dl) - 1) :
       /\ GreaterEq(Abs(dl[k].diff), Abs(dl[k + 1].diff))
       /\ Abs(dl[k].diff) = Abs(dl[k + 1].diff) => posOf(dl[k].type) < posOf(dl[k + 1].type)

\* C8: the drift list has one entry per asset type with diff = actual -
\* target, is ordered by non-increasing |diff|, and entries of equal |diff|
\* keep the order of ASSET_TYPES.
C8_DriftSorted == driftSorted(driftList, allocation, state.targets)

-----------------------------------------------------------------------------
(* C9 *)

atLeast(d, th) == Abs(d.diff) = th \/ Less(th, Abs(d.diff))

alertingIff(dl, al, th) ==
  /\ \A k \in 1..Len(dl) :
       /\ (dl[k] \in Range(al)) <=> atLeast(dl[k], th)
       /\ (dl[k].target = R(45) /\ dl[k].actual = R(50) /\ th = R(5)) => dl[k] \in Range(al)
  /\ \A k \in 1..Len(al) : al[k] \in Range(dl)

\* C9: a drift entry is among the rebalance alerts (the rows that get the
\* rebalance button) if and only if |diff| >= the drift threshold; target
\* 45, actual 50, threshold 5 is alerting.
C9_AlertingIffAtLeastThreshold ==
  /\ alertingIff(driftList, alerts, state.targets.driftThreshold)
  /\ lastOp.op = "suggestRebalance" => alerts # <<>>

\* Stock at target 45 and actual 50 with threshold 5 is among the alerts,
\* and the button of an alerting row was pressed
C9_Witness ==
  LET al == alerts
  IN  /\ lastOp.op = "suggestRebalance"
      /\ \E k \in 1..Len(al) :
           /\ al[k].type = "Stock" /\ al[k].target = R(45) /\ al[k].actual = R(50)
           /\ al[k].diff = state.targets.driftThreshold

-----------------------------------------------------------------------------
(* C10 *)

entryOf(dl, t) == dl[CHOOSE k \in 1..Len(dl) : dl[k].type = t]

picksExtremes(dl, tot, sg) ==
  IF (\E k \in 1..Len(dl) : Less(Zero, dl[k].diff)) /\ (\E k \in 1..Len(dl) : Less(dl[k].diff, Zero))
  THEN LET over == entryOf(dl, sg.from)
           under == entryOf(dl, sg.to)
           exact == Mul(Div(tot, R(100)), sg.movePct)
       IN  /\ sg.kind = "suggestion"
           /\ Less(Zero, over.diff)
           /\ \A k \in 1..Len(dl) : ~Less(over.diff, dl[k].diff)
           /\ Less(under.diff, Zero)
           /\ \A k \in 1..Len(dl) : ~Less(dl[k].diff, under.diff)
           /\ sg.movePct \in {over.diff, Neg(under.diff)}
           /\ ~Less(over.diff, sg.movePct)
           /\ ~Less(Neg(under.diff), sg.movePct)
           /\ IF IsFinite(exact)
              THEN ~Less(<<1, 2>>, Abs(Sub(sg.moveAmount, exact)))
              ELSE sg.moveAmount = exact
  ELSE sg.kind = "no-suggestion"

\* C10: suggestRebalance takes the entry of the largest positive diff as
\* the source and the entry of the most negative diff as the destination
\* and proposes moving min(source diff, -destination diff) percent of total
\* assets; with no entry of diff > 0 or none of diff < 0 it gives the
\* no-suggestion outcome.
C10_SuggestionPicksExtremes ==
  LET dl == driftList
      tot == total
      sg == suggestRebalance(dl, tot)
  IN  /\ picksExtremes(dl, tot, sg)
      /\ alert.kind \in {"suggestion", "no-suggestion"} => alert = sg

\* a proposal was shown whose source and destination diffs differ in size
C10_Witness ==
  LET dl == driftList
  IN  /\ alert.kind = "suggestion"
      /\ lastOp.op = "suggestRebalance"
      /\ entryOf(dl, alert.from).diff # Neg(entryOf(dl, alert.to).diff)
      /\ Less(Zero, alert.movePct)

-----------------------------------------------------------------------------
(* C11 *)

\* C11: for every reachable record set, exporting it and importing the
\* exported document yields a record set equal to the original: the record
\* set importJSON takes from the file exportJSON writes is the record set
\* exported.
C11_ExportImportRoundTrip == exportedFile(state).doc = state

-----------------------------------------------------------------------------
(* C12 *)

\* C12: when the text of an imported file does not parse as JSON (the step
\* recorded as Op("importJSON", 0)), the user is notified and the record set
\* and the stored document are what they were before the import.
C12_FailedImportChangesNothing ==
  [][lastOp' = Op("importJSON", 0) =>
       /\ alert'.kind = "parse-failed"
       /\ state' = state
       /\ storage' = storage]_vars

\* a failed import in a session whose record set is not the seed
C12_Witness ==
  /\ lastOp = Op("importJSON", 0)
  /\ alert.kind = "parse-failed"
  /\ state # seed
  /\ storage = saveState(state)

-----------------------------------------------------------------------------
(* C13 *)

\* amounts and currency codes the conversion is tried on
SampleAmounts == {R(0), R(2500), R(-30000), <<5, 2>>}

SampleCurrencies == {"KRW", "USD", "EUR"}

convertsAsStated(s, rate) ==
  \A amount \in SampleAmounts : \A cur \in SampleCurrencies :
    LET out == toBase(s, amount, cur)
        base == s.settings.baseCurrency
    IN  IF cur = base THEN out = amount
        ELSE IF cur = "USD" /\ base = "KRW" THEN out = Mul(amount, rate)
        ELSE IF cur = "KRW" /\ base = "USD"
             THEN IF rate # Zero THEN IsFinite(out) /\ Mul(out, rate) = amount
                  ELSE out = <<SignInt(amount[1]), 0>>
        ELSE out = amount

\* C13: toBase returns the amount unchanged when the source currency is the
\* base currency, the amount times the USD-KRW rate of the settings for a
\* USD amount under base KRW, the amount divided by that rate for a KRW
\* amount under base USD, and the amount unchanged for any other currency.
C13_ConversionToBase == convertsAsStated(state, state.settings.usdKrw)

\* a KRW account shown under base USD at a rate that is not 1: its base
\* balance is its balance divided by the rate
C13_Witness ==
  /\ state.settings.baseCurrency = "USD"
  /\ state.settings.usdKrw = R(1350)
  /\ \E i \in 1..Len(accountBalances) :
       /\ accountBalances[i].currency = "KRW"
       /\ accountBalances[i].balance # Zero
       /\ accountBalances[i].balanceBase # accountBalances[i].balance
       /\ Mul(accountBalances[i].balanceBase, R(1350)) = accountBalances[i].balance

-----------------------------------------------------------------------------
(* C14 *)

allFinite(ab, pmv, alloc, tot) ==
  /\ \A i \in 1..Len(ab) : IsFinite(ab[i].balance) /\ IsFinite(ab[i].balanceBase)
  /\ \A i \in 1..Len(pmv) :
       /\ IsFinite(pmv[i].marketValue) /\ IsFinite(pmv[i].marketValueBase)
       /\ IsFinite(pmv[i].pnl) /\ IsFinite(pmv[i].pnlPct)
  /\ IsFinite(tot)
  /\ \A t \in Types : IsFinite(alloc[t])

\* C14: no derived value is NaN or infinite: the balances and base balances
\* of the accounts, the market value, base market value, P/L and P/L
\* percentage of the positions (an average cost of 0 included), total
\* assets and the allocation percentages (a conversion at rate 0 included).
C14_DerivedAreFinite == allFinite(accountBalances, positionsMV, allocation, total)

-----------------------------------------------------------------------------
(* C15 *)

\* the earliest month of a transaction
earliestMonth(txs) ==
  monthOf(txs[CHOOSE i \in 1..Len(txs) : \A j \in 1..Len(txs) : ~dateLess(txs[j].date, txs[i].date)].date)

monthsAsStated(series, txs) ==
  IF txs = <<>> THEN series = <<>>
  ELSE /\ series # <<>>
       /\ series[1].month = earliestMonth(txs)
       /\ series[Len(series)].month = currentMonth
       /\ \A k \in 1..(Len(series) - 1) : series[k + 1].month = nextMonth(series[k].month)

\* C15: the net-worth series is empty when there is no transaction;
\* otherwise it has exactly one entry per calendar month, ascending and
\* without gaps, from the month of the earliest-dated transaction through
\* the current month - in whatever time zone the session runs.
C15_SeriesMonths ==
  \A tz \in TimeZones : monthsAsStated(netWorthSeries[tz], state.transactions)

-----------------------------------------------------------------------------
(* C16 *)

\* a numeric field as the specification reads it: a value that is not a
\* finite number counts as 0
fieldValue(v) == IF IsNumber(v) /\ IsFinite(v) THEN v ELSE Zero

\* base-currency sum of the opening balances
openingBase(s) ==
  addUp([i \in 1..Len(s.accounts) |->
           toBase(s, fieldValue(s.accounts[i].openingBalance), s.accounts[i].currency)])

\* signed base-currency effect of the transactions dated in a month <= m
RECURSIVE effectUpTo(_, _, _)
effectUpTo(s, txs, m) ==
  IF txs = <<>> THEN Zero
  ELSE LET t == Head(txs)
           net == Sub(fieldValue(t.amount), Add(fieldValue(t.fee), fieldValue(t.tax)))
           base == toBase(s, net, currencyOfAccount(s, t.accountId))
           effect == IF ~monthLeq(monthOf(t.date), m) THEN Zero
                     ELSE IF t.type \in {"Deposit", "Income", "Sell"} THEN base
                     ELSE IF t.type \in {"Withdraw", "Expense", "Buy"} THEN Neg(base)
                     ELSE Zero
       IN  Add(effect, effectUpTo(s, Tail(txs), m))

\* the current total base-currency market value of the positions
positionsBaseNow(s) ==
  addUp([i \in 1..Len(s.positions) |->
           toBase(s, Mul(fieldValue(s.positions[i].qty), fieldValue(s.positions[i].lastPrice)),
                  s.positions[i].currency)])

entriesAsStated(series, s) ==
  \A k \in 1..Len(series) :
    LET cashPart == Add(openingBase(s), effectUpTo(s, s.transactions, series[k].month))
    IN  series[k].cash = IF k = Len(series) THEN Add(cashPart, positionsBaseNow(s)) ELSE cashPart

\* C16: the entry of month m of the net-worth series is the base-currency
\* sum of the opening balances plus the signed base-currency effect of
\* every transaction dated in a month <= m; the last entry also holds the
\* current total base-currency market value of the positions, and no other
\* entry holds any position value.
C16_SeriesEntries == \A tz \in TimeZones : entriesAsStated(netWorthSeries[tz], state)

-----------------------------------------------------------------------------
(* C17 *)

\* sum of the base-currency gross amounts of the transactions of month m
\* whose type is in types
RECURSIVE grossOf(_, _, _, _)
grossOf(s, txs, m, types) ==
  IF txs = <<>> THEN Zero
  ELSE LET t == Head(txs)
           mine == monthOf(t.date) = m /\ t.type \in types
       IN  Add(IF mine THEN toBase(s, fieldValue(t.amount), currencyOfAccount(s, t.accountId))
               ELSE Zero,
               grossOf(s, Tail(txs), m, types))

reportAsStated(rows, s) ==
  /\ {rows[k].month : k \in 1..Len(rows)}
       = {monthOf(s.transactions[i].date) : i \in 1..Len(s.transactions)}
  /\ \A k \in 1..(Len(rows) - 1) :
       rows[k].month # rows[k + 1].month /\ monthLeq(rows[k].month, rows[k + 1].month)
  /\ \A k \in 1..Len(rows) :
       /\ rows[k].income = grossOf(s, s.transactions, rows[k].month, {"Income", "Deposit", "Sell"})
       /\ rows[k].expense = grossOf(s, s.transactions, rows[k].month, {"Withdraw", "Expense", "Buy"})

\* C17: the monthly report has one row per month that holds a transaction,
\* in ascending month order; a row's income is the sum of the base-currency
\* gross amounts (fee and tax not taken off) of the month's
\* Income/Deposit/Sell transactions and its expense that of the month's
\* Withdraw/Expense/Buy transactions.
C17_MonthlyReport == reportAsStated(monthlyReport(state), state)

\* two rows, one of them with income and expense and a transaction that
\* carries a fee
C17_Witness ==
  LET rows == monthlyReport(state)
  IN  /\ Len(rows) >= 2
      /\ \E k \in 1..Len(rows) : rows[k].income # Zero /\ rows[k].expense # Zero
      /\ \E i \in 1..Len(state.transactions) : state.transactions[i].fee # Zero

-----------------------------------------------------------------------------
(* C18 *)

\* the sum of field f of the records of seq whose field k is t
RECURSIVE sumWhere(_, _, _, _)
sumWhere(seq, k, t, f) ==
  IF seq = <<>> THEN Zero
  ELSE Add(IF Head(seq)[k] = t THEN Head(seq)[f] ELSE Zero, sumWhere(Tail(seq), k, t, f))

totalsAsStated(tots, ab, pmv) ==
  /\ DOMAIN tots = {ab[i].type : i \in 1..Len(ab)} \cup {pmv[i].assetType : i \in 1..Len(pmv)}
  /\ \A t \in DOMAIN tots :
       tots[t] = Add(sumWhere(ab, "type", t, "balanceBase"),
                     sumWhere(pmv, "assetType", t, "marketValueBase"))

\* C18: the per-type totals map gives each asset type the sum of the base
\* balances of the accounts of that type plus the base market values of the
\* positions of that asset type; a type with no account and no position
\* has no entry.
C18_TotalsByType == totalsAsStated(totals, accountBalances, positionsMV)

\* a type that has an account and a position, and a type that has neither
C18_Witness ==
  LET tots == totals
  IN  /\ \E t \in DOMAIN tots :
           /\ \E i \in 1..Len(accountBalances) :
                accountBalances[i].type = t /\ accountBalances[i].balanceBase # Zero
           /\ \E i \in 1..Len(positionsMV) :
                positionsMV[i].assetType = t /\ positionsMV[i].marketValueBase # Zero
      /\ \E t \in Types : t \notin DOMAIN tots
      /\ lastOp.op # "mount"

-----------------------------------------------------------------------------
(* C19 *)

positionsAsStated(pmv, positions) ==
  /\ Len(pmv) = Len(positions)
  /\ \A i \in 1..Len(positions) :
       LET qty == fieldValue(positions[i].qty)
           last == fieldValue(positions[i].lastPrice)
           avg == fieldValue(positions[i].avgPrice)
       IN  /\ pmv[i].id = positions[i].id
           /\ pmv[i].marketValue = Mul(qty, last)
           /\ pmv[i].pnl = Mul(Sub(last, avg), qty)
           /\ (qty = R(20) /\ avg = R(70000) /\ last = R(81000)) => pmv[i].pnl = R(220000)

\* C19: for every position of the record set (a field that is no finite
\* number counting as 0), market value = quantity x last price and
\* unrealized P/L = (last price - average cost) x quantity; quantity 20,
\* average cost 70000 and last price 81000 give a P/L of 220,000.
C19_MarketValueAndPnl == positionsAsStated(positionsMV, state.positions)

\* the position just added: 10 units bought at 100, now at 110
C19_Witness ==
  /\ lastOp.op = "addPosition"
  /\ \E i \in 1..Len(positionsMV) :
       /\ positionsMV[i].id = lastOp.id
       /\ positionsMV[i].marketValue = R(1100)
       /\ positionsMV[i].pnl = R(100)
  /\ \E i \in 1..Len(positionsMV) : positionsMV[i].pnl = R(220000)

-----------------------------------------------------------------------------
(* C20 *)

\* every ordering of the elements of seq
permutationsOf(seq) ==
  LET n == Len(seq)
      bijections == {f \in [1..n -> 1..n] : \A i, j \in 1..n : i # j => f[i] # f[j]}
  IN  {[i \in 1..n |-> seq[f[i]]] : f \in bijections}

orderIndependent(s, ab) ==
  \A txs \in permutationsOf(s.transactions) :
    LET other == computeAccountBalances([s EXCEPT !.transactions = txs])
    IN  /\ Len(other) = Len(ab)
        /\ \A i \in 1..Len(ab) : other[i].id = ab[i].id /\ other[i].balance = ab[i].balance

-----------------------------------------------------------------------------
(* C21 *)

\* the sum of the base balances of the accounts of ab whose id is in ids, a
\* base balance that is no finite number counting as 0
RECURSIVE linkedBase(_, _)
linkedBase(ab, ids) ==
  IF ab = <<>> THEN Zero
  ELSE Add(IF Head(ab).id \in ids THEN fieldValue(Head(ab).balanceBase) ELSE Zero,
           linkedBase(Tail(ab), ids))

progressAsStated(goals, ab) ==
  \A i \in 1..Len(goals) :
    LET g == goals[i]
        p == progressFor(ab, g)
        target == fieldValue(g.target)
    IN  /\ p.val = linkedBase(ab, Range(g.accountIds))
        /\ IF Less(Zero, target)
           THEN IsFinite(p.pct) /\ Mul(p.pct, Div(target, R(100))) = p.val
           ELSE p.pct = Zero

\* C21: the progress of every goal is the sum of the base-currency balances
\* of the accounts whose ids are in its linked-account set, divided by its
\* target, as a percentage, and is 0 when the target is not positive.
C21_GoalProgress == progressAsStated(state.goals, accountBalances)

\* a goal with a positive target linked to an account of another currency
\* than the base currency, and a goal of target 0 linked to accounts that
\* hold money
C21_Witness ==
  /\ \E i \in 1..Len(state.goals) :
       LET g == state.goals[i]
       IN  /\ Less(Zero, g.target)
           /\ progressFor(accountBalances, g).pct # Zero
           /\ \E k \in 1..Len(accountBalances) :
                /\ accountBalances[k].id \in Range(g.accountIds)
                /\ accountBalances[k].balanceBase # accountBalances[k].balance
  /\ \E i \in 1..Len(state.goals) :
       LET g == state.goals[i]
       IN  /\ g.target = Zero
           /\ progressFor(accountBalances, g).val # Zero
           /\ progressFor(accountBalances, g).pct = Zero

-----------------------------------------------------------------------------
(* C22 *)

\* every transaction names an account of the record set
transactionsReferToAccounts(s) ==
  \A i \in 1..Len(s.transactions) : s.transactions[i].accountId \in AccountIds(s)

\* no transaction is dated after the current month
noneAfterCurrentMonth(s) ==
  \A i \in 1..Len(s.transactions) : monthLeq(monthOf(s.transactions[i].date), currentMonth)

lastEntryIsTotal(series, tot) ==
  series # <<>> => series[Len(series)].cash = tot

\* C22: whenever every transaction references an existing account and no
\* transaction is dated after the current month, the last entry of a
\* non-empty net-worth series equals total assets in base currency.
C22_LastEntryIsTotalAssets ==
  (transactionsReferToAccounts(state) /\ noneAfterCurrentMonth(state))
    => \A tz \in TimeZones : lastEntryIsTotal(netWorthSeries[tz], total)

-----------------------------------------------------------------------------
(* C23 *)

\* the accounts a goal's progress counts are accounts of the record set, and
\* its value is the sum of their base balances
countsExistingOnly(goals, ab, s) ==
  /\ [i \in 1..Len(ab) |-> ab[i].id] = [i \in 1..Len(s.accounts) |-> s.accounts[i].id]
  /\ \A i \in 1..Len(goals) :
       LET g == goals[i]
           counted == {ab[k].id : k \in {j \in 1..Len(ab) : ab[j].id \in Range(g.accountIds)}}
       IN  /\ counted = Range(g.accountIds) \cap AccountIds(s)
           /\ progressFor(ab, g).val = linkedBase(ab, Range(g.accountIds) \cap AccountIds(s))

\* C23: removeAccount(id) leaves every goal unchanged, so a goal's
\* linked-account set may keep naming the deleted account; in every state
\* the goal's progress counts only linked accounts that still exist.
C23_RemoveAccountKeepsGoals ==
  /\ [][lastOp'.op = "removeAccount" => state'.goals = state.goals]_vars
  /\ [](countsExistingOnly(state.goals, accountBalances, state))

\* an account has just been removed; a goal still names it, and the goal's
\* progress is that of another linked account
C23_Witness ==
  /\ lastOp.op = "removeAccount"
  /\ lastOp.id \notin AccountIds(state)
  /\ \E i \in 1..Len(state.goals) :
       /\ lastOp.id \in Range(state.goals[i].accountIds)
       /\ Range(state.goals[i].accountIds) \cap AccountIds(state) # {}
       /\ progressFor(accountBalances, state.goals[i]).val # Zero

-----------------------------------------------------------------------------
(* C24 *)

\* the collection a mutator works on
ownCollection(op) ==
  CASE op \in {"addAccount"} -> "accounts"
    [] op \in {"addTransaction", "removeTransaction"} -> "transactions"
    [] op \in {"addPosition", "updatePosition", "removePosition"} -> "positions"
    [] op \in {"addGoal", "removeGoal"} -> "goals"

\* one record with the given id appended at the end, the others as they were
appended(old, new, id) ==
  /\ Len(new) = Len(old) + 1
  /\ SubSeq(new, 1, Len(old)) = old
  /\ new[Len(new)].id = id

\* only the patched field of the record with the given id differs
patched(old, new, id) ==
  /\ Len(new) = Len(old)
  /\ \A k \in 1..Len(old) :
       IF old[k].id = id
       THEN \A f \in DOMAIN old[k] \cup DOMAIN new[k] :
              f # "lastPrice" => f \in DOMAIN old[k] /\ f \in DOMAIN new[k] /\ new[k][f] = old[k][f]
       ELSE new[k] = old[k]

changesOnlyOwn(s, s2, op) ==
  LET own == ownCollection(op.op)
  IN  /\ \A f \in DOMAIN s \cup DOMAIN s2 : f # own => f \in DOMAIN s /\ f \in DOMAIN s2 /\ s2[f] = s[f]
      /\ CASE op.op \in {"addAccount", "addTransaction", "addPosition", "addGoal"}
                -> appended(s[own], s2[own], op.id)
            [] op.op \in {"removeTransaction", "removePosition", "removeGoal"}
                -> s2[own] = withoutId(s[own], op.id)
            [] op.op = "updatePosition"
                -> patched(s[own], s2[own], op.id)

\* C24: each of addAccount, addTransaction, removeTransaction, addPosition,
\* updatePosition, removePosition, addGoal and removeGoal changes only its
\* own collection and leaves settings, targets and the other three
\* collections unchanged: an add appends one record at the end and keeps
\* the existing records in order, a remove deletes exactly the records with
\* the given id, and updatePosition changes only the patched field of the
\* position with the given id.
C24_MutatorsChangeOwnCollection ==
  [][(ops' = ops + 1 /\ lastOp'.op \in {"addAccount", "addTransaction", "removeTransaction",
                                        "addPosition", "updatePosition", "removePosition",
                                        "addGoal", "removeGoal"})
       => changesOnlyOwn(state, state', lastOp')]_vars

\* a price has just been entered for one of two positions: its lastPrice
\* is the only value that differs from the stored seed's
C24_Witness ==
  /\ lastOp.op = "updatePosition"
  /\ Len(state.positions) = 2
  /\ \E k \in 1..2 :
       /\ state.positions[k].id = lastOp.id
       /\ state.positions[k].lastPrice # seed.positions[k].lastPrice
       /\ state.positions[k].avgPrice = seed.positions[k].avgPrice
       /\ state.positions[3 - k] = seed.positions[3 - k]

-----------------------------------------------------------------------------
(* C25 *)

\* the blob the session found when it started
found == InitialBlobs[lastOp.id]

\* every transaction and position of the seed names an account of the seed
seedRefersToSeed ==
  /\ \A i \in 1..Len(seed.transactions) : seed.transactions[i].accountId \in AccountIds(seed)
  /\ \A i \in 1..Len(seed.positions) : seed.positions[i].accountId \in AccountIds(seed)

\* the record set is the value the stored text parses to; the value null is
\* no record set
isParsedValue(s, raw) ==
  IF raw.kind = "json" THEN s = raw.doc ELSE DOMAIN s # DOMAIN seed

\* C25 as stated: on start the record set is the stored document when one
\* is present under the storage key and parses as JSON, and the seed
\* record set otherwise; a stored blob that does not parse raises no error,
\* and the seed's transaction and positions reference accounts of the seed.
C25_Original ==
  /\ lastOp.op = "mount" =>
       /\ IF found.kind \in {"json", "null"} THEN isParsedValue(state, found) ELSE state = seed
       /\ alert = NoAlert
  /\ seedRefersToSeed

\* C25: on start the record set is the stored document when one is present
\* under the storage key, parses as JSON and is not null, and the seed
\* record set otherwise; a stored blob that does not parse raises no error,
\* and the seed's transaction and positions reference accounts of the seed.
C25_StartsFromStoredOrSeed ==
  /\ lastOp.op = "mount" =>
       /\ IF found.kind = "json" THEN state = found.doc ELSE state = seed
       /\ alert = NoAlert
  /\ seedRefersToSeed

\* the session has started on the stored text null, with the seed
C25_Witness ==
  /\ lastOp.op = "mount"
  /\ found = JsonNull
  /\ state = seed
  /\ storage = saveState(seed)

====
